---- MODULE Spec2Model ----
(***************************************************************************)
(* A model of wgtools.py, the Python bindings for the WireGuard tool wg.   *)
(*                                                                         *)
(* Two state machines share this module.                                   *)
(*   Spec     the status-text parsers parse_interface / parse_interfaces,  *)
(*            one step per iteration of their line loop;                   *)
(*   SpecOps  the public operations (genkey, pubkey, genpsk, keypair,      *)
(*            show, set, clear_peers), one step per external process.      *)
(*                                                                         *)
(* A Python str is a sequence of one-character strings, so that strip,     *)
(* split and replace are computed, not assumed.                            *)
(***************************************************************************)
EXTENDS Integers, Sequences, FiniteSets, TLC

(***************************************************************************)
(* Bounds of the model.                                                    *)
(***************************************************************************)
\* the longest text, in lines, the parsers are run on
MaxLines == 4
\* the deepest nesting of calls followed (Python stops at its recursion limit)
MaxDepth == 6

(***************************************************************************)
(* str methods                                                             *)
(***************************************************************************)
Whitespace == {" ", "\n", "\t"}

\* whether sep occurs in s at position i
OccursAt(s, sep, i) ==
    /\ i >= 1
    /\ i + Len(sep) - 1 <= Len(s)
    /\ \A k \in 1..Len(sep) : s[i + k - 1] = sep[k]

RECURSIVE find_from(_, _, _)
\* the first position from i on at which sep occurs in s; 0 when there is none
find_from(s, sep, i) ==
    IF i + Len(sep) - 1 > Len(s) THEN 0
    ELSE IF OccursAt(s, sep, i) THEN i
    ELSE find_from(s, sep, i + 1)

\* str.find, 1-based; 0 when sep does not occur in s
find(s, sep) == find_from(s, sep, 1)

RECURSIVE lstrip(_)
lstrip(s) ==
    IF s # <<>> /\ Head(s) \in Whitespace THEN lstrip(Tail(s)) ELSE s

RECURSIVE rstrip(_)
rstrip(s) ==
    IF s # <<>> /\ s[Len(s)] \in Whitespace THEN rstrip(SubSeq(s, 1, Len(s) - 1)) ELSE s

\* str.strip(): leading and trailing whitespace removed
strip(s) == rstrip(lstrip(s))

RECURSIVE split(_, _)
\* str.split(sep): the pieces between the non-overlapping occurrences of sep
split(s, sep) ==
    LET j == find(s, sep)
    IN  IF j = 0 THEN <<s>>
        ELSE <<SubSeq(s, 1, j - 1)>> \o split(SubSeq(s, j + Len(sep), Len(s)), sep)

RECURSIVE replace(_, _, _)
\* str.replace(old, new): every non-overlapping occurrence of old replaced
replace(s, old, new) ==
    LET j == find(s, old)
    IN  IF j = 0 THEN s
        ELSE SubSeq(s, 1, j - 1) \o new \o replace(SubSeq(s, j + Len(old), Len(s)), old, new)

RECURSIVE split_whitespace(_)
\* str.split() without a separator: the runs of non-whitespace characters
split_whitespace(s) ==
    LET t == strip(s)
        gaps == {i \in 1..Len(t) : t[i] \in Whitespace}
    IN  IF t = <<>> THEN <<>>
        ELSE IF gaps = {} THEN <<t>>
        ELSE LET g == CHOOSE i \in gaps : \A j \in gaps : i <= j
             IN  <<SubSeq(t, 1, g - 1)>> \o split_whitespace(SubSeq(t, g + 1, Len(t)))

RECURSIVE join(_, _)
\* sep.join(parts)
join(sep, parts) ==
    IF parts = <<>> THEN <<>>
    ELSE IF Len(parts) = 1 THEN parts[1]
    ELSE parts[1] \o sep \o join(sep, Tail(parts))

(***************************************************************************)
(* The literals of the source.                                             *)
(***************************************************************************)
S_peer == <<"p", "e", "e", "r">>
S_interface == <<"i", "n", "t", "e", "r", "f", "a", "c", "e">>
S_peers == <<"p", "e", "e", "r", "s">>
S_allowed_ips == <<"a", "l", "l", "o", "w", "e", "d", " ", "i", "p", "s">>
S_listening_port == <<"l", "i", "s", "t", "e", "n", "i", "n", "g", " ", "p", "o", "r", "t">>
S_transfer == <<"t", "r", "a", "n", "s", "f", "e", "r">>
S_hidden == <<"(", "h", "i", "d", "d", "e", "n", ")">>
S_none == <<"(", "n", "o", "n", "e", ")">>
S_received == <<"r", "e", "c", "e", "i", "v", "e", "d">>
S_sent == <<"s", "e", "n", "t">>
S_all == <<"a", "l", "l">>
S_interfaces == <<"i", "n", "t", "e", "r", "f", "a", "c", "e", "s">>
S_genkey == <<"g", "e", "n", "k", "e", "y">>
S_pubkey == <<"p", "u", "b", "k", "e", "y">>
S_genpsk == <<"g", "e", "n", "p", "s", "k">>
S_show == <<"s", "h", "o", "w">>
S_set == <<"s", "e", "t">>
S_remove == <<"r", "e", "m", "o", "v", "e">>
S_preshared_key == <<"p", "r", "e", "s", "h", "a", "r", "e", "d", "-", "k", "e", "y">>
S_endpoint == <<"e", "n", "d", "p", "o", "i", "n", "t">>
S_persistent_keepalive == <<"p", "e", "r", "s", "i", "s", "t", "e", "n", "t", "-", "k", "e", "e", "p", "a", "l", "i", "v", "e">>
S_allowed_ips_arg == <<"a", "l", "l", "o", "w", "e", "d", "-", "i", "p", "s">>
S_listen_port == <<"l", "i", "s", "t", "e", "n", "-", "p", "o", "r", "t">>
S_fwmark == <<"f", "w", "m", "a", "r", "k">>
S_private_key == <<"p", "r", "i", "v", "a", "t", "e", "-", "k", "e", "y">>
\* the separator of key and value in a status line
DELIM == <<":", " ">>
COMMA == <<",">>
\* WG = (which("wg"),)
WG == <<<<"w", "g">>>>

(***************************************************************************)
(* Python values.  Every value is a record of one shape, so that any two   *)
(* can be compared: t is the type, s the strings it holds, n its number.   *)
(***************************************************************************)
StrV(s) == [t |-> "str", s |-> <<s>>, n |-> 0]
NoneV == [t |-> "None", s |-> <<>>, n |-> 0]
IntV(n) == [t |-> "int", s |-> <<>>, n |-> n]
\* a list of str (json) or of IPv4Network / IPv6Network objects, named by
\* their canonical text
ListV(items, json) ==
    [t |-> IF items = <<>> THEN "list" ELSE IF json THEN "list[str]" ELSE "list[IPNetwork]",
     s |-> items, n |-> 0]
\* {"received": ..., "sent": ...}
TransferV(received, sent) == [t |-> "dict", s |-> <<received, sent>>, n |-> 0]

\* the outcome of an evaluation: a value, or the exception it raised
Ok(v) == [ok |-> TRUE, val |-> v, exc |-> "none"]
Raise(e) == [ok |-> FALSE, val |-> NoneV, exc |-> e]

(***************************************************************************)
(* Ordered dicts: a sequence of entries, in insertion order.               *)
(***************************************************************************)
DictKeys(d) == [i \in 1..Len(d) |-> d[i].k]
DictKeySet(d) == {d[i].k : i \in 1..Len(d)}
DictHas(d, k) == \E i \in 1..Len(d) : d[i].k = k
DictGet(d, k) == d[CHOOSE i \in 1..Len(d) : d[i].k = k].v
\* d[k] = v: an existing key keeps its position
DictSet(d, k, v) ==
    IF DictHas(d, k)
    THEN [i \in 1..Len(d) |-> IF d[i].k = k THEN [k |-> k, v |-> v] ELSE d[i]]
    ELSE Append(d, [k |-> k, v |-> v])

(***************************************************************************)
(* Library functions.                                                      *)
(***************************************************************************)
Digits == <<"0", "1", "2", "3", "4", "5", "6", "7", "8", "9">>
DigitValue(c) == (CHOOSE i \in 1..Len(Digits) : Digits[i] = c) - 1
IsDigit(c) == \E i \in 1..Len(Digits) : Digits[i] = c

RECURSIVE DecimalValue(_)
DecimalValue(s) ==
    IF s = <<>> THEN 0
    ELSE DecimalValue(SubSeq(s, 1, Len(s) - 1)) * 10 + DigitValue(s[Len(s)])

\* int(value): surrounding whitespace and one sign are accepted, then only
\* decimal digits (the digit separator "_" is not in the model's alphabet)
int(value) ==
    LET t == strip(value)
        signed == t # <<>> /\ t[1] \in {"+", "-"}
        digits == IF signed THEN Tail(t) ELSE t
    IN  IF digits = <<>> \/ \E i \in 1..Len(digits) : ~IsDigit(digits[i])
        THEN Raise("ValueError")
        ELSE Ok(IntV(IF signed /\ t[1] = "-" THEN 0 - DecimalValue(digits)
                    ELSE DecimalValue(digits)))

\* the network texts the model's inputs draw on; ip_network accepts these
\* and rejects every other text of the model with ValueError
Networks == { <<":", ":", "/", "0">>, <<"1", ".", "0", ".", "0", ".", "0", "/", "8">> }
ip_network(network) ==
    IF network \in Networks THEN Ok(network) ELSE Raise("ValueError")

(***************************************************************************)
(* parse_value and its helper.                                             *)
(***************************************************************************)
RECURSIVE parse_networks(_, _)
\* the loop of _parse_ip_networks over value.split(","): the list it yields
parse_networks(segments, json) ==
    IF segments = <<>> THEN Ok(<<>>)
    ELSE LET network == strip(Head(segments))
             rest == parse_networks(Tail(segments), json)
             parsed == IF json THEN Ok(network) ELSE ip_network(network)
         IN  IF network = S_none THEN rest
             ELSE IF ~parsed.ok THEN parsed
             ELSE IF ~rest.ok THEN rest
             ELSE Ok(<<parsed.val>> \o rest.val)

_parse_ip_networks(value, json) == parse_networks(split(value, COMMA), json)

\* parse_value without its test for "(hidden)"
parse_value_keeps_hidden(key, value, json) ==
    IF key = S_allowed_ips
    THEN LET r == _parse_ip_networks(value, json)
         IN  IF r.ok THEN Ok(ListV(r.val, json)) ELSE Raise(r.exc)
    ELSE IF key = S_listening_port
    THEN int(value)
    ELSE IF key = S_transfer
    THEN LET parts == split(value, COMMA)
         IN  IF Len(parts) # 2 THEN Raise("ValueError")
             ELSE Ok(TransferV(strip(replace(parts[1], S_received, <<>>)),
                               strip(replace(parts[2], S_sent, <<>>))))
    ELSE Ok(StrV(value))

parse_value(key, value, json) ==
    IF key = S_allowed_ips
    THEN LET r == _parse_ip_networks(value, json)
         IN  IF r.ok THEN Ok(ListV(r.val, json)) ELSE Raise(r.exc)
    ELSE IF key = S_listening_port
    THEN int(value)
    ELSE IF key = S_transfer
    THEN LET parts == split(value, COMMA)
         IN  IF Len(parts) # 2 THEN Raise("ValueError")
             ELSE Ok(TransferV(strip(replace(parts[1], S_received, <<>>)),
                               strip(replace(parts[2], S_sent, <<>>))))
    ELSE IF value = S_hidden
    THEN Ok(NoneV)
    ELSE Ok(StrV(value))

(***************************************************************************)
(* The objects of a parse.                                                 *)
(*                                                                         *)
(* An interface dict is a record: attrs holds its entries other than the   *)
(* peers dict, peers holds the peers dict, and link says what the key      *)
(* "peers" of the interface dict is bound to:                              *)
(*   "dict"    the peers dict, as created;                                 *)
(*   "attr"    a parsed value, after interface["peers"] = value (the value *)
(*             is then attrs["peers"]); the peers dict itself lives on in  *)
(*             parse_interface's local variable peers;                     *)
(*   "absent"  nothing: the {} that parse_interfaces starts with.          *)
(* The local variable interface is a reference: to the dict no entry of    *)
(* interfaces holds (local), or to the entry of a name.  The local         *)
(* variable peer is None or a reference to the peer dict of a key in the   *)
(* peers dict of the current interface.                                    *)
(***************************************************************************)
EmptyDict == <<>>
NewInterface(link) == [attrs |-> EmptyDict, peers |-> EmptyDict, link |-> link]
LocalRef == [entry |-> FALSE, name |-> NoneV]
EntryRef(name) == [entry |-> TRUE, name |-> name]
NoPeer == [set |-> FALSE, key |-> NoneV]
PeerRef(key) == [set |-> TRUE, key |-> key]

\* the locals of parse_interface at its first line
parse_interface_init ==
    [interfaces |-> EmptyDict, local |-> NewInterface("dict"),
     interface |-> LocalRef, peer |-> NoPeer, status |-> "scanning", exc |-> "none"]

\* the locals of parse_interfaces at its first line
parse_interfaces_init ==
    [interfaces |-> EmptyDict, local |-> NewInterface("absent"),
     interface |-> LocalRef, peer |-> NoPeer, status |-> "scanning", exc |-> "none"]

\* the dict the local variable interface refers to
Deref(P) ==
    IF P.interface.entry THEN DictGet(P.interfaces, P.interface.name) ELSE P.local

\* a change of the dict the local variable interface refers to
Update(P, rec) ==
    IF P.interface.entry
    THEN [P EXCEPT !.interfaces = DictSet(@, P.interface.name, rec)]
    ELSE [P EXCEPT !.local = rec]

Raised(P, e) == [P EXCEPT !.status = "raised", !.exc = e]

\* ReadLine with line.split(": ", 1): the line is split at the first ": " only
ReadLine_first_delimiter(line, raw, json) ==
    LET parts == split(strip(line), DELIM)
        value == join(DELIM, Tail(parts))
    IN  IF strip(line) = <<>>
        THEN [blank |-> TRUE, ok |-> TRUE, key |-> <<>>, val |-> NoneV, exc |-> "none"]
        ELSE IF Len(parts) < 2
        THEN [blank |-> FALSE, ok |-> FALSE, key |-> <<>>, val |-> NoneV, exc |-> "ValueError"]
        ELSE IF raw
        THEN [blank |-> FALSE, ok |-> TRUE, key |-> parts[1], val |-> StrV(value), exc |-> "none"]
        ELSE [blank |-> FALSE, ok |-> parse_value(parts[1], value, json).ok,
              key |-> parts[1],
              val |-> parse_value(parts[1], value, json).val,
              exc |-> parse_value(parts[1], value, json).exc]

\* the head of the loop body: line.strip(), the blank test,
\* key, value = line.split(": "), and parse_value unless raw
ReadLine(line, raw, json) ==
    LET parts == split(strip(line), DELIM)
    IN  IF strip(line) = <<>>
        THEN [blank |-> TRUE, ok |-> TRUE, key |-> <<>>, val |-> NoneV, exc |-> "none"]
        ELSE IF Len(parts) # 2
        THEN [blank |-> FALSE, ok |-> FALSE, key |-> <<>>, val |-> NoneV, exc |-> "ValueError"]
        ELSE IF raw
        THEN [blank |-> FALSE, ok |-> TRUE, key |-> parts[1], val |-> StrV(parts[2]), exc |-> "none"]
        ELSE [blank |-> FALSE, ok |-> parse_value(parts[1], parts[2], json).ok,
              key |-> parts[1],
              val |-> parse_value(parts[1], parts[2], json).val,
              exc |-> parse_value(parts[1], parts[2], json).exc]

\* interface[key] = value; the key "peers" of {"peers": ...} is the dict's
\* first key and keeps that place when it is bound to value
SetInterfaceField(P, key, value) ==
    LET cur == Deref(P)
    IN  IF key = S_peers /\ cur.link = "dict"
        THEN Update(P, [cur EXCEPT !.attrs = <<[k |-> key, v |-> value]>> \o @,
                                  !.link = "attr"])
        ELSE Update(P, [cur EXCEPT !.attrs = DictSet(@, key, value),
                                  !.link = IF key = S_peers THEN "attr" ELSE @])

\* peer[key] = value
SetPeerField(P, key, value) ==
    LET cur == Deref(P)
    IN  Update(P, [cur EXCEPT !.peers =
            DictSet(@, P.peer.key, DictSet(DictGet(@, P.peer.key), key, value))])

\* SetField without its else branch: every field goes to the interface
SetField_on_interface(P, key, value) == SetInterfaceField(P, key, value)

\* if peer is None: interface[key] = value / else: peer[key] = value
SetField(P, key, value) ==
    IF ~P.peer.set THEN SetInterfaceField(P, key, value) ELSE SetPeerField(P, key, value)

\* peers[value] = peer = {}
StartPeer(P, value) ==
    LET cur == Deref(P)
    IN  [Update(P, [cur EXCEPT !.peers = DictSet(@, value, EmptyDict)])
            EXCEPT !.peer = PeerRef(value)]

\* StartInterface with interfaces.setdefault(value, {"peers": {}}): the
\* record of a name seen before is kept
StartInterface_setdefault(P, value) ==
    [P EXCEPT !.interfaces = IF DictHas(@, value) THEN @
                             ELSE DictSet(@, value, NewInterface("dict")),
              !.interface = EntryRef(value),
              !.peer = NoPeer]

\* interfaces[value] = interface = {"peers": {}}; peer = None
StartInterface(P, value) ==
    [P EXCEPT !.interfaces = DictSet(@, value, NewInterface("dict")),
              !.interface = EntryRef(value),
              !.peer = NoPeer]

\* the rest of one iteration of the loop of parse_interface, kv being what
\* ReadLine made of the line
parse_interface_line(P, kv) ==
    IF kv.blank THEN P
    ELSE IF ~kv.ok THEN Raised(P, kv.exc)
    ELSE IF kv.key = S_peer THEN StartPeer(P, kv.val)
    ELSE SetField(P, kv.key, kv.val)

\* the rest of one iteration of the loop of parse_interfaces;
\* interface["peers"][value] raises KeyError on the initial {} and TypeError
\* once "peers" holds a parsed value (a str or None)
parse_interfaces_line(P, kv) ==
    IF kv.blank THEN P
    ELSE IF ~kv.ok THEN Raised(P, kv.exc)
    ELSE IF kv.key = S_interface THEN StartInterface(P, kv.val)
    ELSE IF kv.key = S_peer
    THEN IF Deref(P).link = "absent" THEN Raised(P, "KeyError")
         ELSE IF Deref(P).link = "attr" THEN Raised(P, "TypeError")
         ELSE StartPeer(P, kv.val)
    ELSE SetField(P, kv.key, kv.val)

ScanLine(f, P, kv) ==
    IF f = "parse_interface" THEN parse_interface_line(P, kv)
    ELSE parse_interfaces_line(P, kv)

RECURSIVE ScanLines(_, _, _, _, _)
\* the whole loop over text.split(linesep), from locals P
ScanLines(f, P, lines, raw, json) ==
    IF lines = <<>> \/ P.status # "scanning" THEN P
    ELSE CHOOSE R \in {ScanLines(f, Q, Tail(lines), raw, json) :
                        Q \in {ScanLine(f, P, kv) : kv \in {ReadLine(Head(lines), raw, json)}}} : TRUE

(***************************************************************************)
(* The state.                                                              *)
(*   fn, raw, json          the parser called and its flags                *)
(*   text                   the lines of text.split(linesep) read so far   *)
(*   interfaces, local, interface, peer                                    *)
(*                          the objects and locals of the parse            *)
(*   status, exc            "scanning", "returned" or "raised", and the    *)
(*                          exception raised                               *)
(*   call                   the public operation called, with arguments    *)
(*   stack                  the frames of the calls in progress            *)
(*   log                    the external processes spawned so far          *)
(*   outcome, retval, error how the operation ended                        *)
(***************************************************************************)
VARIABLES fn, raw, json, text, interfaces, local, interface, peer, status, exc,
          call, stack, log, outcome, retval, error

parser_vars == <<fn, raw, json, text, interfaces, local, interface, peer, status, exc>>
ops_vars == <<call, stack, log, outcome, retval, error>>
vars == <<fn, raw, json, text, interfaces, local, interface, peer, status, exc,
          call, stack, log, outcome, retval, error>>

\* the locals of the running parse, as one record
Locals ==
    [interfaces |-> interfaces, local |-> local, interface |-> interface,
     peer |-> peer, status |-> status, exc |-> exc]

(***************************************************************************)
(* The lines the parsers are run on: blank, interface and peer markers,    *)
(* fields with and without typed decoding, hidden values, the key "peers", *)
(* and lines with no or two separators.  json is read only when raw is     *)
(* off, so it is left off with raw.                                        *)
(***************************************************************************)
L_blank == <<" ">>
L_interface_a == S_interface \o DELIM \o <<"a">>
L_interface_b == S_interface \o DELIM \o <<"b">>
L_peer_k == S_peer \o DELIM \o <<"k">>
L_peer_j == S_peer \o DELIM \o <<"j">>
L_private_key == <<" ", "p", "r", "i", "v", "a", "t", "e", " ", "k", "e", "y">> \o DELIM \o S_hidden \o <<" ">>
L_port_hidden == S_listening_port \o DELIM \o S_hidden
L_port == S_listening_port \o DELIM \o <<"5", "1">>
L_allowed_ips == S_allowed_ips \o DELIM \o <<":", ":", "/", "0", ",", " ">> \o S_none
L_peers == S_peers \o DELIM \o <<"x">>
L_no_delim == <<"o", "o", "p", "s">>
L_two_delims == <<"a">> \o DELIM \o <<"b">> \o DELIM \o <<"c">>

Lines ==
    {L_blank, L_interface_a, L_interface_b, L_peer_k, L_peer_j, L_private_key,
     L_port, L_port_hidden, L_allowed_ips, L_peers, L_no_delim, L_two_delims}

\* no call, and no value returned
NoCall ==
    [op |-> "none", interface |-> <<>>, key |-> <<>>, raw |-> FALSE, json |-> FALSE,
     listen_port |-> NoneV, fwmark |-> NoneV, private_key |-> NoneV, peers |-> <<>>]

Nothing == [kind |-> "nothing"]

\* no public operation is running
IdleOps ==
    /\ call = NoCall
    /\ stack = <<>>
    /\ log = <<>>
    /\ outcome = "idle"
    /\ retval = Nothing
    /\ error = "none"

\* a call of parse_interface or parse_interfaces, before its first line
Init ==
    /\ fn \in {"parse_interface", "parse_interfaces"}
    /\ raw \in BOOLEAN
    /\ json \in IF raw THEN {FALSE} ELSE BOOLEAN
    /\ text = <<>>
    /\ LET P == IF fn = "parse_interface" THEN parse_interface_init
                ELSE parse_interfaces_init
       IN  /\ interfaces = P.interfaces
           /\ local = P.local
           /\ interface = P.interface
           /\ peer = P.peer
           /\ status = P.status
           /\ exc = P.exc
    /\ IdleOps

\* the loop has a next line to read
CanScan == status = "scanning" /\ Len(text) < MaxLines

\* the loop reads line and leaves the locals as P
Scan(line, P) ==
    /\ text' = Append(text, line)
    /\ interfaces' = P.interfaces
    /\ local' = P.local
    /\ interface' = P.interface
    /\ peer' = P.peer
    /\ status' = P.status
    /\ exc' = P.exc
    /\ UNCHANGED <<fn, raw, json>>
    /\ UNCHANGED ops_vars

\* if not (line := line.strip()): continue
SkipBlank(line) ==
    /\ CanScan
    /\ \E kv \in {ReadLine(line, raw, json)} :
        /\ kv.blank
        /\ \E P \in {ScanLine(fn, Locals, kv)} :
            /\ Scan(line, P)

\* key, value = line.split(": ") or parse_value(...) raises
RaiseValueError(line) ==
    /\ CanScan
    /\ \E kv \in {ReadLine(line, raw, json)} :
        /\ ~kv.ok
        /\ \E P \in {ScanLine(fn, Locals, kv)} :
            /\ Scan(line, P)

\* interface["peers"][value] raises
RaiseLookupError(line) ==
    /\ CanScan
    /\ \E kv \in {ReadLine(line, raw, json)} :
        /\ kv.ok
        /\ \E P \in {ScanLine(fn, Locals, kv)} :
            /\ P.status = "raised"
            /\ Scan(line, P)

\* if key == "interface": ...; continue
InterfaceLine(line) ==
    /\ CanScan
    /\ fn = "parse_interfaces"
    /\ \E kv \in {ReadLine(line, raw, json)} :
        /\ ~kv.blank /\ kv.ok
        /\ kv.key = S_interface
        /\ \E P \in {ScanLine(fn, Locals, kv)} :
            /\ Scan(line, P)

\* if key == "peer": ...; continue
PeerLine(line) ==
    /\ CanScan
    /\ \E kv \in {ReadLine(line, raw, json)} :
        /\ ~kv.blank /\ kv.ok
        /\ kv.key = S_peer
        /\ \E P \in {ScanLine(fn, Locals, kv)} :
            /\ P.status = "scanning"
            /\ Scan(line, P)

\* interface[key] = value or peer[key] = value
FieldLine(line) ==
    /\ CanScan
    /\ \E kv \in {ReadLine(line, raw, json)} :
        /\ ~kv.blank /\ kv.ok
        /\ kv.key # S_peer
        /\ fn = "parse_interfaces" => kv.key # S_interface
        /\ \E P \in {ScanLine(fn, Locals, kv)} :
            /\ Scan(line, P)

\* the text is exhausted: return interface / return interfaces
Return ==
    /\ status = "scanning"
    /\ Len(text) >= 1
    /\ status' = "returned"
    /\ UNCHANGED <<fn, raw, json, text, interfaces, local, interface, peer, exc>>
    /\ UNCHANGED ops_vars

\* one iteration of the loop on some next line, or the end of the text
Next ==
    \/ \E line \in Lines : SkipBlank(line)
    \/ \E line \in Lines : RaiseValueError(line)
    \/ \E line \in Lines : RaiseLookupError(line)
    \/ \E line \in Lines : InterfaceLine(line)
    \/ \E line \in Lines : PeerLine(line)
    \/ \E line \in Lines : FieldLine(line)
    \/ Return

Spec == Init /\ [][Next]_vars

\* what the parse returned
Result == IF fn = "parse_interface" THEN local ELSE interfaces

(***************************************************************************)
(* The vocabulary of the claims about the parsers: what a text says, read  *)
(* off its lines by position, without running the parser.                  *)
(***************************************************************************)
\* what a line says: whether it is blank once trimmed, how many times ": "
\* occurs in it, and for a line with one ": " the texts on its two sides
Facts(line) ==
    LET t == strip(line)
        at == {i \in 1..(Len(t) - 1) : t[i] = ":" /\ t[i + 1] = " "}
    IN  [blank |-> t = <<>>,
         delimiters |-> Cardinality(at),
         key |-> IF Cardinality(at) = 1 THEN SubSeq(t, 1, (CHOOSE i \in at : TRUE) - 1) ELSE <<>>,
         value |-> IF Cardinality(at) = 1 THEN SubSeq(t, (CHOOSE i \in at : TRUE) + 2, Len(t))
                   ELSE <<>>]

\* the facts of the lines of Lines, worked out once
LinesFacts == {<<line, Facts(line)>> : line \in Lines}
FactsOf(line) ==
    IF line \in Lines THEN (CHOOSE p \in LinesFacts : p[1] = line)[2] ELSE Facts(line)

Blank(line) == FactsOf(line).blank
\* how many times ": " occurs in the trimmed line
Delimiters(line) == FactsOf(line).delimiters
WellFormed(line) == ~Blank(line) /\ Delimiters(line) = 1
\* the texts before and after the ": " of a well-formed line
KeyText(line) == FactsOf(line).key
ValueText(line) == FactsOf(line).value

TypedKeys == {S_allowed_ips, S_listening_port, S_transfer}

\* the key under which a "peer" or "interface" line files its record
NameOf(line) ==
    IF ~raw /\ ValueText(line) = S_hidden THEN NoneV ELSE StrV(ValueText(line))

IsInterfaceLine(line) ==
    fn = "parse_interfaces" /\ WellFormed(line) /\ KeyText(line) = S_interface
IsPeerLine(line) == WellFormed(line) /\ KeyText(line) = S_peer
IsFieldLine(line) == WellFormed(line) /\ ~IsInterfaceLine(line) /\ ~IsPeerLine(line)

Max(S) == IF S = {} THEN 0 ELSE CHOOSE i \in S : \A j \in S : i >= j

\* the "interface" line that opens the block line i of txt lies in (0: none)
BlockOf(txt, i) == Max({b \in 1..i : IsInterfaceLine(txt[b])})
\* the most recent "peer" line of that block at line i (0: none)
PeerOf(txt, i) == Max({p \in (BlockOf(txt, i) + 1)..i : IsPeerLine(txt[p])})

\* the interface dict of the block that is open after txt
BlockRecord(txt, ifs, loc) ==
    IF BlockOf(txt, Len(txt)) = 0 THEN loc
    ELSE DictGet(ifs, NameOf(txt[BlockOf(txt, Len(txt))]))

\* every entry of d is an entry of e, but for key k
SameBut(d, e, k) ==
    /\ DictKeySet(d) \ {k} = DictKeySet(e) \ {k}
    /\ \A x \in DictKeySet(d) \ {k} : DictGet(d, x) = DictGet(e, x)

(***************************************************************************)
(* C1.  At every iteration of parse_interface and parse_interfaces that    *)
(* reads a key/value line whose key is neither "peer" nor "interface", the *)
(* value is stored in the record of the most recent "peer" line of the     *)
(* current interface block, and in the interface record of that block when *)
(* the block has no "peer" line yet; no other record changes: not the      *)
(* interface record once a peer is current, not an earlier peer's record,  *)
(* not another interface.                                                  *)
(***************************************************************************)
C1_Stored(line) ==
    LET key == KeyText(line)
        value == ReadLine(line, raw, json).val
        p == PeerOf(text, Len(text))
        before == BlockRecord(text, interfaces, local)
        after == BlockRecord(text, interfaces', local')
    IN  /\ IF p = 0
           THEN /\ DictHas(after.attrs, key)
                /\ DictGet(after.attrs, key) = value
                /\ SameBut(after.attrs, before.attrs, key)
                /\ after.peers = before.peers
           ELSE /\ DictHas(after.peers, NameOf(text[p]))
                /\ DictHas(DictGet(after.peers, NameOf(text[p])), key)
                /\ DictGet(DictGet(after.peers, NameOf(text[p])), key) = value
                /\ SameBut(DictGet(after.peers, NameOf(text[p])),
                           DictGet(before.peers, NameOf(text[p])), key)
                /\ SameBut(after.peers, before.peers, NameOf(text[p]))
                /\ after.attrs = before.attrs
                /\ after.link = before.link
        /\ IF BlockOf(text, Len(text)) = 0
           THEN interfaces' = interfaces
           ELSE /\ local' = local
                /\ SameBut(interfaces', interfaces, NameOf(text[BlockOf(text, Len(text))]))

C1_FieldScoping ==
    [][(/\ status = "scanning"
        /\ status' = "scanning"
        /\ Len(text') = Len(text) + 1
        /\ IsFieldLine(text'[Len(text')])
        /\ KeyText(text'[Len(text')]) # S_interface)
       => C1_Stored(text'[Len(text')])]_vars

\* a field line read by parse_interfaces after a peer of an earlier block
\* and the "interface" line that closed it, and one read after two peers
C1_Witness ==
    /\ status = "scanning"
    /\ Len(text) = 4
    /\ IsFieldLine(text[4])
    /\ \/ /\ fn = "parse_interfaces"
          /\ IsInterfaceLine(text[1]) /\ IsPeerLine(text[2]) /\ IsInterfaceLine(text[3])
          /\ DictHas(DictGet(interfaces, NameOf(text[3])).attrs, KeyText(text[4]))
       \/ /\ fn = "parse_interface"
          /\ IsFieldLine(text[1]) /\ IsPeerLine(text[2]) /\ IsPeerLine(text[3])
          /\ NameOf(text[2]) # NameOf(text[3])
          /\ DictHas(DictGet(local.peers, NameOf(text[3])), KeyText(text[4]))

(***************************************************************************)
(* What a returned text says, block by block.                              *)
(***************************************************************************)
LineNumbers == 1..Len(text)
InterfaceLines == {b \in LineNumbers : IsInterfaceLine(text[b])}
\* the names the "interface" lines of the text give
InterfaceNames == {NameOf(text[b]) : b \in InterfaceLines}
\* the last block of a name: the one whose record the name is bound to
LastBlock(name) == Max({b \in InterfaceLines : NameOf(text[b]) = name})
\* the "peer" lines between the "interface" line b and the next one
PeerLinesOf(b) == {p \in LineNumbers : IsPeerLine(text[p]) /\ BlockOf(text, p) = b}
\* the field lines of block b ahead of its first "peer" line
InterfaceFieldsOf(b) ==
    {f \in LineNumbers : IsFieldLine(text[f]) /\ BlockOf(text, f) = b /\ PeerOf(text, f) = 0}
\* the field lines that follow the "peer" line p up to the next marker
PeerFieldsOf(p) == {f \in LineNumbers : IsFieldLine(text[f]) /\ PeerOf(text, f) = p}
\* the first non-blank line is an "interface" line
MadeOfBlocks ==
    /\ InterfaceLines # {}
    /\ \A i \in LineNumbers : (\A b \in InterfaceLines : i < b) => Blank(text[i])

\* the entry of a name holds exactly the peers, and each peer exactly the
\* fields, of the name's block
C2_PeersOfBlock(entry, b) ==
    /\ entry.link = "dict"
    /\ DictKeySet(entry.peers) = {NameOf(text[p]) : p \in PeerLinesOf(b)}
    /\ Len(entry.peers) = Cardinality(DictKeySet(entry.peers))
    /\ \A k \in DictKeySet(entry.peers) :
        LET p == Max({q \in PeerLinesOf(b) : NameOf(text[q]) = k})
        IN  DictKeySet(DictGet(entry.peers, k)) = {KeyText(text[f]) : f \in PeerFieldsOf(p)}

C2_OneEntryPerName ==
    /\ DictKeySet(interfaces) = InterfaceNames
    /\ Len(interfaces) = Cardinality(InterfaceNames)

C2_Case == fn = "parse_interfaces" /\ status = "returned" /\ MadeOfBlocks

C3_Case ==
    /\ fn = "parse_interface" /\ status = "returned"
    /\ \A i \in LineNumbers : ~IsPeerLine(text[i])

FieldKeys == {KeyText(text[i]) : i \in {j \in LineNumbers : IsFieldLine(text[j])}}
\* the value text of the last line of a key
LastValueText(key) ==
    ValueText(text[Max({i \in LineNumbers : IsFieldLine(text[i]) /\ KeyText(text[i]) = key})])

C3_DecodedType(key) ==
    IF key = S_listening_port THEN {"int"}
    ELSE IF key = S_transfer THEN {"dict"}
    ELSE {"list", "list[str]", "list[IPNetwork]"}

C4_HiddenIsNone ==
    \A i \in LineNumbers :
        (~raw /\ WellFormed(text[i]) /\ ValueText(text[i]) = S_hidden)
            => /\ ~(status = "raised" /\ i = Len(text))
               /\ ReadLine(text[i], raw, json).val = NoneV

(***************************************************************************)
(* C5.  A non-blank trimmed line that does not hold exactly one ": " makes *)
(* the parse fail with ValueError at that line: such a line is the last    *)
(* one read, the parse has raised, and nothing is returned.                *)
(***************************************************************************)
C5_MalformedLineFails ==
    \A i \in LineNumbers :
        (~Blank(text[i]) /\ Delimiters(text[i]) # 1)
            => /\ i = Len(text)
               /\ status = "raised"
               /\ exc = "ValueError"

\* a line with two separators, read after two accepted lines
C5_Witness ==
    /\ status = "raised"
    /\ Len(text) >= 3
    /\ Delimiters(text[Len(text)]) = 2
    /\ \A i \in 1..(Len(text) - 1) : WellFormed(text[i])

(***************************************************************************)
(*                         The public operations                           *)
(***************************************************************************)
LF == <<"\n">>

RECURSIVE str_nat(_)
\* str(n) of a natural number
str_nat(n) == IF n < 10 THEN <<Digits[n + 1]>> ELSE str_nat(n \div 10) \o <<Digits[(n % 10) + 1]>>
\* str(n) of an int
str_int(n) == IF n < 0 THEN <<"-">> \o str_nat(0 - n) ELSE str_nat(n)

BoolV(b) == [t |-> "bool", s |-> <<>>, n |-> IF b THEN 1 ELSE 0]

\* the truth value of a Python value
Truthy(v) ==
    IF v.t = "None" THEN FALSE
    ELSE IF v.t \in {"bool", "int"} THEN v.n # 0
    ELSE IF v.t = "str" THEN v.s[1] # <<>>
    ELSE v.s # <<>>

\* str(v) of a str or an int
str(v) == IF v.t = "int" THEN str_int(v.n) ELSE v.s[1]

\* settings.get(name)
Setting(settings, name) == IF DictHas(settings, name) THEN DictGet(settings, name) ELSE NoneV

\* peer_args without "remove"
peer_args_no_remove(key, settings) ==
    <<StrV(S_peer), key>>
    \o (IF Truthy(Setting(settings, S_preshared_key))
        THEN <<StrV(S_preshared_key), Setting(settings, S_preshared_key)>> ELSE <<>>)

\* what peers_args yields for one peer
peer_args(key, settings) ==
    <<StrV(S_peer), key>>
    \o (IF Truthy(Setting(settings, S_remove)) THEN <<StrV(S_remove)>> ELSE <<>>)
    \o (IF Truthy(Setting(settings, S_preshared_key))
        THEN <<StrV(S_preshared_key), Setting(settings, S_preshared_key)>> ELSE <<>>)
    \o (IF Truthy(Setting(settings, S_endpoint))
        THEN <<StrV(S_endpoint), StrV(str(Setting(settings, S_endpoint)))>> ELSE <<>>)
    \o (IF Truthy(Setting(settings, S_persistent_keepalive))
        THEN <<StrV(S_persistent_keepalive), StrV(str(Setting(settings, S_persistent_keepalive)))>>
        ELSE <<>>)
    \o (IF Truthy(Setting(settings, S_allowed_ips_arg))
        THEN <<StrV(S_allowed_ips_arg), StrV(join(COMMA, Setting(settings, S_allowed_ips_arg).s))>>
        ELSE <<>>)

RECURSIVE peers_args(_)
\* the args peers_args yields, peer by peer in the order of the dict
peers_args(peers) ==
    IF peers = <<>> THEN <<>>
    ELSE peer_args(peers[1].k, peers[1].v) \o peers_args(Tail(peers))

\* the args list that set() builds
set_args(iface, listen_port, fwmark, private_key, peers) ==
    <<StrV(WG[1]), StrV(S_set), StrV(iface)>>
    \o (IF listen_port.t # "None" THEN <<StrV(S_listen_port), StrV(str(listen_port))>> ELSE <<>>)
    \o (IF fwmark.t # "None" THEN <<StrV(S_fwmark), fwmark>> ELSE <<>>)
    \o (IF private_key.t # "None" THEN <<StrV(S_private_key), private_key>> ELSE <<>>)
    \o (IF peers # <<>> THEN peers_args(peers) ELSE <<>>)

\* {key: {"remove": True} for key in keys}
RemoveAll(keys) ==
    [i \in 1..Len(keys) |-> [k |-> keys[i], v |-> <<[k |-> S_remove, v |-> BoolV(TRUE)]>>]]

\* subprocess refuses, before it spawns anything, an args list with an
\* element that is no str (a peer key None)
ArgsAreStrings(args) == \A i \in 1..Len(args) : args[i].t = "str"
Argv(args) == [i \in 1..Len(args) |-> args[i].s[1]]

\* subprocess.call / run without check: the exit status is not looked at
CalledProcessError_unchecked(exit) == FALSE
\* check_call / check_output raise CalledProcessError on a non-zero exit
CalledProcessError(exit) == exit # 0

\* the test left out
ReservedName_unchecked(iface) == FALSE
\* if interface == "interfaces": raise ValueError(...)
ReservedName(iface) == iface = S_interfaces

\* the argv of genkey used for pubkey
pubkey_argv_genkey == <<WG[1], S_genkey>>
\* [*_wg, "pubkey"]
pubkey_argv == <<WG[1], S_pubkey>>

(***************************************************************************)
(* What the external tool may print.                                       *)
(***************************************************************************)
S_wg0 == <<"w", "g", "0">>
S_wg1 == <<"w", "g", "1">>
\* genkey, pubkey, genpsk: a key and a line end
KeyOutputs == { <<"K", "=", "\n">> }
\* show interfaces: the names on one line
InterfacesOutputs ==
    { LF,
      S_wg0 \o <<" ">> \o S_wg1 \o LF,
      S_wg0 \o <<" ">> \o S_all \o LF,
      S_interfaces \o <<" ">> \o S_wg1 \o LF }
\* show <interface> and show all: no peer, one peer, two peers, and a text
\* with a line that has no separator
StatusOutputs ==
    { join(LF, <<S_interface \o DELIM \o S_wg0,
                 <<" ", " ">> \o S_listening_port \o DELIM \o <<"5", "1">>>>) \o LF,
      join(LF, <<S_interface \o DELIM \o S_wg0,
                 <<" ", " ", "p", "r", "i", "v", "a", "t", "e", " ", "k", "e", "y">> \o DELIM \o S_hidden,
                 <<>>,
                 S_peer \o DELIM \o <<"k">>,
                 <<" ", " ">> \o S_allowed_ips \o DELIM \o <<":", ":", "/", "0">>>>) \o LF,
      join(LF, <<S_interface \o DELIM \o S_wg0, <<>>, S_peer \o DELIM \o <<"k">>,
                 <<>>, S_peer \o DELIM \o <<"j">>>>) \o LF,
      <<"o", "o", "p", "s">> \o LF }

\* an entry of the log: one external process, spawned and waited for
Process(argv, input, exit, out) == [argv |-> argv, input |-> input, exit |-> exit, out |-> out]
ExitCodes == {0, 1}

(***************************************************************************)
(* The calls.                                                              *)
(***************************************************************************)
\* the peers dicts set() is called with: none, one to remove, and two with
\* settings
SetPeers ==
    { <<>>,
      RemoveAll(<<StrV(<<"k">>)>>),
      <<[k |-> StrV(<<"k">>),
         v |-> <<[k |-> S_preshared_key, v |-> StrV(<<"/", "p">>)],
                 [k |-> S_endpoint, v |-> StrV(<<"e", ":", "1">>)],
                 [k |-> S_persistent_keepalive, v |-> IntV(25)],
                 [k |-> S_allowed_ips_arg, v |-> ListV(<<<<":", ":", "/", "0">>, <<"1", ".", "0", ".", "0", ".", "0", "/", "8">>>>, TRUE)]>>],
        [k |-> StrV(<<"j">>), v |-> <<[k |-> S_remove, v |-> BoolV(FALSE)]>>]>> }

Calls ==
    {[NoCall EXCEPT !.op = o] : o \in {"genkey", "genpsk", "keypair"}}
    \cup {[NoCall EXCEPT !.op = "pubkey", !.key = <<"P", "=">>]}
    \cup {[NoCall EXCEPT !.op = "show", !.interface = i, !.raw = r, !.json = j] :
            i \in {S_all, S_interfaces, S_wg0}, r \in BOOLEAN, j \in BOOLEAN}
    \cup {[NoCall EXCEPT !.op = "set", !.interface = S_wg0, !.listen_port = l,
                         !.fwmark = m, !.private_key = k, !.peers = p] :
            l \in {NoneV, IntV(51)}, m \in {NoneV, StrV(<<"o", "f", "f">>)},
            k \in {NoneV, StrV(<<"/", "k">>)}, p \in SetPeers}
    \cup {[NoCall EXCEPT !.op = "clear_peers", !.interface = i] :
            i \in {S_wg0, S_all, S_interfaces}}

\* a frame of the stack: the function, where it stands, and its locals
Frame(f, pc, iface) ==
    [f |-> f, pc |-> pc, interface |-> iface, names |-> <<>>, i |-> 0,
     private |-> <<>>, peers |-> <<>>]

\* show(): what it returns, or the exception of the parse, given the
\* standard output of a process that exited with 0
show(iface, r, j, out) ==
    IF iface = S_all
    THEN LET P == ScanLines("parse_interfaces", parse_interfaces_init,
                            split(strip(out), LF), r, j)
         IN  IF P.status = "raised" THEN Raise(P.exc)
             ELSE Ok([kind |-> "interfaces", val |-> P.interfaces])
    ELSE IF iface = S_interfaces
    THEN Ok([kind |-> "names", val |-> split_whitespace(strip(out))])
    ELSE LET P == ScanLines("parse_interface", parse_interface_init,
                            split(strip(out), LF), r, j)
         IN  IF P.status = "raised" THEN Raise(P.exc)
             ELSE Ok([kind |-> "interface", val |-> P.local])

\* what the tool prints for show <iface>
ShowOutputs(iface) == IF iface = S_interfaces THEN InterfacesOutputs ELSE StatusOutputs
\* the standard output of a process: read only when the exit status is 0
Outputs(exit, outs) == IF exit = 0 THEN outs ELSE {<<>>}

Top == stack[Len(stack)]
Running(f) == outcome = "running" /\ stack # <<>> /\ Top.f = f
Pop(stk) == SubSeq(stk, 1, Len(stk) - 1)
SetTop(stk, frame) == [stk EXCEPT ![Len(stk)] = frame]

RECURSIVE Unwind(_)
\* the stack once its top frame has returned: a clear_peers frame under it
\* is at "return clear_all_peers()" and returns with it
Unwind(stk) ==
    IF stk = <<>> THEN stk
    ELSE IF stk[Len(stk)].f = "clear_peers" THEN Unwind(Pop(stk))
    ELSE stk

\* an exception: no function catches any, so the operation ends with it
RaiseError(e) ==
    /\ outcome' = "raised"
    /\ error' = e
    /\ retval' = Nothing
    /\ stack' = <<>>

\* the public operation returns value
ReturnValue(value) ==
    /\ outcome' = "returned"
    /\ retval' = value
    /\ error' = "none"
    /\ stack' = <<>>

\* a clear_peers or clear_all_peers frame returns None to its caller
ReturnNone ==
    /\ stack' = Unwind(Pop(stack))
    /\ IF Unwind(Pop(stack)) = <<>>
       THEN /\ outcome' = "returned"
            /\ retval' = [kind |-> "None"]
       ELSE UNCHANGED <<outcome, retval>>
    /\ UNCHANGED error

Continue(stk) ==
    /\ stack' = stk
    /\ UNCHANGED <<outcome, retval, error>>

Spawn(argv, input, exit, out) == log' = Append(log, Process(argv, input, exit, out))

\* genkey(): check_output([*_wg, "genkey"], text=True).strip()
GenKey(exit, out) ==
    /\ Running("genkey")
    /\ Spawn(<<WG[1], S_genkey>>, <<>>, exit, out)
    /\ IF CalledProcessError(exit) THEN RaiseError("CalledProcessError")
       ELSE ReturnValue([kind |-> "str", val |-> strip(out)])
    /\ UNCHANGED <<call, parser_vars>>

\* pubkey(key): check_output([*_wg, "pubkey"], input=key, text=True).strip()
PubKey(exit, out) ==
    /\ Running("pubkey")
    /\ Spawn(pubkey_argv, call.key, exit, out)
    /\ IF CalledProcessError(exit) THEN RaiseError("CalledProcessError")
       ELSE ReturnValue([kind |-> "str", val |-> strip(out)])
    /\ UNCHANGED <<call, parser_vars>>

\* genpsk(): check_output([*_wg, "genpsk"], text=True).strip()
GenPsk(exit, out) ==
    /\ Running("genpsk")
    /\ Spawn(<<WG[1], S_genpsk>>, <<>>, exit, out)
    /\ IF CalledProcessError(exit) THEN RaiseError("CalledProcessError")
       ELSE ReturnValue([kind |-> "str", val |-> strip(out)])
    /\ UNCHANGED <<call, parser_vars>>

\* keypair() -> Keypair.generate(): the genkey() it starts with
KeypairGenKey(exit, out) ==
    /\ Running("keypair")
    /\ Top.pc = "genkey"
    /\ Spawn(<<WG[1], S_genkey>>, <<>>, exit, out)
    /\ IF CalledProcessError(exit) THEN RaiseError("CalledProcessError")
       ELSE Continue(SetTop(stack, [Top EXCEPT !.pc = "pubkey", !.private = strip(out)]))
    /\ UNCHANGED <<call, parser_vars>>

\* Keypair.from_private_key(private): cls(pubkey(private), private)
KeypairPubKey(exit, out) ==
    /\ Running("keypair")
    /\ Top.pc = "pubkey"
    /\ Spawn(pubkey_argv, Top.private, exit, out)
    /\ IF CalledProcessError(exit) THEN RaiseError("CalledProcessError")
       ELSE ReturnValue([kind |-> "Keypair", public |-> strip(out), private |-> Top.private])
    /\ UNCHANGED <<call, parser_vars>>

\* show(interface, raw=..., json=...)
Show(exit, out) ==
    /\ Running("show")
    /\ Spawn(<<WG[1], S_show, call.interface>>, <<>>, exit, out)
    /\ IF CalledProcessError(exit) THEN RaiseError("CalledProcessError")
       ELSE \E r \in {show(call.interface, call.raw, call.json, out)} :
                IF r.ok THEN ReturnValue(r.val) ELSE RaiseError(r.exc)
    /\ UNCHANGED <<call, parser_vars>>

\* set(interface, listen_port=..., fwmark=..., private_key=..., peers=...)
Set(exit) ==
    /\ Running("set")
    /\ \E args \in {set_args(call.interface, call.listen_port, call.fwmark,
                             call.private_key, call.peers)} :
        IF ~ArgsAreStrings(args)
        THEN RaiseError("TypeError") /\ UNCHANGED log
        ELSE /\ Spawn(Argv(args), <<>>, exit, <<>>)
             /\ IF CalledProcessError(exit) THEN RaiseError("CalledProcessError")
                ELSE ReturnValue([kind |-> "int", val |-> 0])
    /\ UNCHANGED <<call, parser_vars>>

\* clear_peers("interfaces"): raise ValueError("Invalid interface name:", ...)
ClearPeersInvalid ==
    /\ Running("clear_peers")
    /\ Top.pc = "start"
    /\ ReservedName(Top.interface)
    /\ RaiseError("ValueError")
    /\ UNCHANGED <<log, call, parser_vars>>

\* clear_peers("all"): return clear_all_peers(_wg=_wg)
ClearPeersAll ==
    /\ Running("clear_peers")
    /\ Top.pc = "start"
    /\ ~ReservedName(Top.interface)
    /\ Top.interface = S_all
    /\ Len(stack) < MaxDepth
    /\ Continue(Append(SetTop(stack, [Top EXCEPT !.pc = "all"]),
                       Frame("clear_all_peers", "show", <<>>)))
    /\ UNCHANGED <<log, call, parser_vars>>

\* clear_all_peers(): the show("interfaces") its loop runs over
ClearAllShow(exit, out) ==
    /\ Running("clear_all_peers")
    /\ Top.pc = "show"
    /\ Spawn(<<WG[1], S_show, S_interfaces>>, <<>>, exit, out)
    /\ IF CalledProcessError(exit) THEN RaiseError("CalledProcessError")
       ELSE Continue(SetTop(stack, [Top EXCEPT !.pc = "loop", !.i = 1,
                        !.names = show(S_interfaces, FALSE, FALSE, out).val.val]))
    /\ UNCHANGED <<call, parser_vars>>

\* clear_all_peers(): clear_peers(interface, _wg=_wg) for the next name
ClearAllCall ==
    /\ Running("clear_all_peers")
    /\ Top.pc = "loop"
    /\ Top.i <= Len(Top.names)
    /\ Len(stack) < MaxDepth
    /\ Continue(Append(SetTop(stack, [Top EXCEPT !.i = @ + 1]),
                       Frame("clear_peers", "start", Top.names[Top.i])))
    /\ UNCHANGED <<log, call, parser_vars>>

\* clear_all_peers(): the loop is over
ClearAllReturn ==
    /\ Running("clear_all_peers")
    /\ Top.pc = "loop"
    /\ Top.i > Len(Top.names)
    /\ ReturnNone
    /\ UNCHANGED <<log, call, parser_vars>>

\* clear_peers(interface): show(interface)["peers"].keys(), and the return
\* when there is no peer
ClearPeersShow(exit, out) ==
    /\ Running("clear_peers")
    /\ Top.pc = "start"
    /\ ~ReservedName(Top.interface)
    /\ Top.interface # S_all
    /\ Spawn(<<WG[1], S_show, Top.interface>>, <<>>, exit, out)
    /\ IF CalledProcessError(exit) THEN RaiseError("CalledProcessError")
       ELSE \E r \in {show(Top.interface, FALSE, FALSE, out)} :
                IF ~r.ok THEN RaiseError(r.exc)
                ELSE IF r.val.kind # "interface" THEN RaiseError("TypeError")
                ELSE IF r.val.val.link # "dict" THEN RaiseError("AttributeError")
                ELSE IF r.val.val.peers # <<>>
                THEN Continue(SetTop(stack, [Top EXCEPT !.pc = "set",
                                !.peers = RemoveAll(DictKeys(r.val.val.peers))]))
                ELSE ReturnNone
    /\ UNCHANGED <<call, parser_vars>>

\* clear_peers(interface): set(interface, peers=peers, _wg=_wg)
ClearPeersSet(exit) ==
    /\ Running("clear_peers")
    /\ Top.pc = "set"
    /\ \E args \in {set_args(Top.interface, NoneV, NoneV, NoneV, Top.peers)} :
        IF ~ArgsAreStrings(args)
        THEN RaiseError("TypeError") /\ UNCHANGED log
        ELSE /\ Spawn(Argv(args), <<>>, exit, <<>>)
             /\ IF CalledProcessError(exit) THEN RaiseError("CalledProcessError")
                ELSE ReturnNone
    /\ UNCHANGED <<call, parser_vars>>

\* a public operation is called
InitOps ==
    /\ fn = "none" /\ raw = FALSE /\ json = FALSE /\ text = <<>>
    /\ interfaces = EmptyDict /\ local = NewInterface("absent")
    /\ interface = LocalRef /\ peer = NoPeer
    /\ status = "idle" /\ exc = "none"
    /\ call \in Calls
    /\ stack = <<Frame(call.op, IF call.op = "keypair" THEN "genkey" ELSE "start",
                       call.interface)>>
    /\ log = <<>>
    /\ outcome = "running"
    /\ retval = Nothing
    /\ error = "none"

NextOps ==
    \/ \E exit \in ExitCodes : \E out \in Outputs(exit, KeyOutputs) : GenKey(exit, out)
    \/ \E exit \in ExitCodes : \E out \in Outputs(exit, KeyOutputs) : PubKey(exit, out)
    \/ \E exit \in ExitCodes : \E out \in Outputs(exit, KeyOutputs) : GenPsk(exit, out)
    \/ \E exit \in ExitCodes : \E out \in Outputs(exit, KeyOutputs) : KeypairGenKey(exit, out)
    \/ \E exit \in ExitCodes : \E out \in Outputs(exit, KeyOutputs) : KeypairPubKey(exit, out)
    \/ \E exit \in ExitCodes : \E out \in Outputs(exit, ShowOutputs(call.interface)) : Show(exit, out)
    \/ \E exit \in ExitCodes : Set(exit)
    \/ ClearPeersInvalid
    \/ ClearPeersAll
    \/ \E exit \in ExitCodes : \E out \in Outputs(exit, InterfacesOutputs) : ClearAllShow(exit, out)
    \/ ClearAllCall
    \/ ClearAllReturn
    \/ \E exit \in ExitCodes : \E out \in Outputs(exit, StatusOutputs) : ClearPeersShow(exit, out)
    \/ \E exit \in ExitCodes : ClearPeersSet(exit)

SpecOps == InitOps /\ [][NextOps]_vars

(***************************************************************************)
(* The vocabulary of the claims about the operations: what the log of      *)
(* external processes shows.                                               *)
(***************************************************************************)
Processes == 1..Len(log)
SubCommand(e) == e.argv[2]
IsShowInterfaces(e) == e.argv = <<WG[1], S_show, S_interfaces>>
IsShowOf(e, name) == e.argv = <<WG[1], S_show, name>>
IsSet(e) == SubCommand(e) = S_set

\* the lines of a status text
OutputLines(out) == split(strip(out), LF)
\* every non-blank line of the text has one ": " (the values of the model's
\* texts all decode)
ParsesCleanly(out) ==
    \A i \in 1..Len(OutputLines(out)) :
        Blank(OutputLines(out)[i]) \/ WellFormed(OutputLines(out)[i])

RECURSIVE PeerKeysIn(_, _)
\* the values of the "peer" lines, in order, each once
PeerKeysIn(lines, seen) ==
    IF lines = <<>> THEN <<>>
    ELSE IF WellFormed(Head(lines)) /\ KeyText(Head(lines)) = S_peer
            /\ ValueText(Head(lines)) \notin seen
    THEN <<ValueText(Head(lines))>> \o PeerKeysIn(Tail(lines), seen \cup {ValueText(Head(lines))})
    ELSE PeerKeysIn(Tail(lines), seen)

\* the peers a successful show reported: none when show failed
ReportedPeers(e) ==
    IF e.exit = 0 /\ ParsesCleanly(e.out) THEN PeerKeysIn(OutputLines(e.out), {}) ELSE <<>>

RECURSIVE RemoveArgs(_)
\* peer <key> remove, for every key
RemoveArgs(keys) ==
    IF keys = <<>> THEN <<>>
    ELSE <<S_peer, Head(keys), S_remove>> \o RemoveArgs(Tail(keys))

(***************************************************************************)
(* C6.  A non-zero exit of an external process ends the operation there:   *)
(* the failed process is the last one spawned (no retry, no later          *)
(* process), the operation has raised CalledProcessError and returned      *)
(* nothing.                                                                *)
(***************************************************************************)
C6_FailureIsFatal ==
    \A i \in Processes :
        log[i].exit # 0 =>
            /\ i = Len(log)
            /\ outcome = "raised"
            /\ error = "CalledProcessError"
            /\ retval.kind = "nothing"
            /\ stack = <<>>

\* clear_peers("all") stopped by a failing process after two that succeeded
C6_Witness ==
    /\ call.op = "clear_peers"
    /\ outcome = "raised"
    /\ Len(log) >= 3
    /\ log[Len(log)].exit # 0
    /\ \A i \in 1..(Len(log) - 1) : log[i].exit = 0

(***************************************************************************)
(* C7.  clear_peers on a named interface spawns "set" if and only if the   *)
(* "show" before it reported at least one peer: with no peer no "set" at   *)
(* all, otherwise exactly one, right after the "show", whose arguments are *)
(* peer <key> remove for every reported key.                               *)
(***************************************************************************)
C7_SetIffPeers ==
    (call.op = "clear_peers" /\ call.interface = S_wg0) =>
        /\ Len(log) <= 2
        /\ Len(log) >= 1 => IsShowOf(log[1], S_wg0)
        /\ Len(log) = 2 =>
            /\ ReportedPeers(log[1]) # <<>>
            /\ log[2].argv = <<WG[1], S_set, S_wg0>> \o RemoveArgs(ReportedPeers(log[1]))
        /\ (outcome # "running" /\ Len(log) >= 1 /\ ReportedPeers(log[1]) # <<>>)
            => Len(log) = 2
        /\ outcome = "returned" => Len(log) >= 1

\* two peers reported and removed by one "set"
C7_Witness ==
    /\ call.op = "clear_peers" /\ call.interface = S_wg0
    /\ outcome = "returned"
    /\ Len(log) = 2
    /\ Len(ReportedPeers(log[1])) = 2

(***************************************************************************)
(* C8.  clear_peers("interfaces") raises ValueError and spawns no external *)
(* process, before or after.                                               *)
(***************************************************************************)
C8_ReservedNameRejected ==
    (call.op = "clear_peers" /\ call.interface = S_interfaces) =>
        /\ log = <<>>
        /\ outcome # "returned"
        /\ outcome = "raised" => error = "ValueError"

C8_Witness ==
    /\ call.op = "clear_peers" /\ call.interface = S_interfaces
    /\ outcome = "raised" /\ error = "ValueError"
    /\ log = <<>>

(***************************************************************************)
(* C9 as claimed.  Every public operation spawns one external process and  *)
(* returns: none spawns more than one per call.                            *)
(***************************************************************************)
C9_Claimed ==
    /\ Len(log) <= 1
    /\ outcome = "returned" => Len(log) = 1

\* the subcommand of an operation that is one subcommand of the tool
C9_OneSubCommand ==
    IF call.op = "genkey" THEN S_genkey
    ELSE IF call.op = "pubkey" THEN S_pubkey
    ELSE IF call.op = "genpsk" THEN S_genpsk
    ELSE IF call.op = "show" THEN S_show
    ELSE S_set

(***************************************************************************)
(* C9 as amended.  genkey, pubkey, genpsk, show and set spawn exactly one  *)
(* external process per call.  keypair spawns two, genkey and then pubkey  *)
(* fed with the private key.  clear_peers spawns none for "interfaces",    *)
(* a show and at most one set for a named interface, and for "all" a       *)
(* "show interfaces" per entry of clear_all_peers and, per listed          *)
(* interface, a show and at most one set right after it.  The processes    *)
(* run one after the other, each waited for.                               *)
(***************************************************************************)
C9_ProcessesPerCall ==
    /\ call.op \in {"genkey", "pubkey", "genpsk", "show", "set"} =>
        /\ Len(log) <= 1
        /\ outcome = "returned" => Len(log) = 1
        /\ \A i \in Processes : SubCommand(log[i]) = C9_OneSubCommand
    /\ call.op = "keypair" =>
        /\ Len(log) <= 2
        /\ outcome = "returned" => Len(log) = 2
        /\ Len(log) >= 1 => SubCommand(log[1]) = S_genkey
        /\ Len(log) = 2 =>
            /\ SubCommand(log[2]) = S_pubkey
            /\ log[1].exit = 0
            /\ log[2].input = strip(log[1].out)
    /\ call.op = "clear_peers" =>
        /\ call.interface = S_interfaces => log = <<>>
        /\ call.interface = S_wg0 => Len(log) <= 2
        /\ call.interface = S_all => (Len(log) >= 1 => IsShowInterfaces(log[1]))
        /\ \A i \in Processes :
            /\ SubCommand(log[i]) \in {S_show, S_set}
            /\ IsSet(log[i]) =>
                /\ i > 1
                /\ IsShowOf(log[i - 1], log[i].argv[3])
                /\ log[i - 1].exit = 0

\* keypair returned after its two processes
C9_Witness ==
    /\ call.op = "keypair"
    /\ outcome = "returned"
    /\ Len(log) = 2
    /\ retval.kind = "Keypair"

\* the names "show interfaces" listed, and the interfaces shown, numbered
C10_Listed == split_whitespace(strip(log[1].out))
C10_Shown ==
    LET shows == {i \in 2..Len(log) : SubCommand(log[i]) = S_show}
    IN  {<<Cardinality({j \in shows : j <= i}), log[i].argv[3]>> : i \in shows}

(***************************************************************************)
(* C10.  clear_peers("all") handles every name that "show interfaces"      *)
(* listed once, in the order listed, and never enters clear_all_peers a    *)
(* second time, also when a listed interface is named "all" or             *)
(* "interfaces": there is one "show interfaces", the operation raises only *)
(* when a process failed or printed a text that does not parse, and when   *)
(* it returns the interfaces shown are the interfaces listed.              *)
(***************************************************************************)
C10_EachNameOnce ==
    (call.op = "clear_peers" /\ call.interface = S_all) =>
        /\ Cardinality({i \in Processes : IsShowInterfaces(log[i])}) <= 1
        /\ outcome = "raised" =>
            \/ log[Len(log)].exit # 0
            \/ ~ParsesCleanly(log[Len(log)].out)
        /\ outcome = "returned" =>
            C10_Shown = {<<n, C10_Listed[n]>> : n \in 1..Len(C10_Listed)}

====
